---------------------------- MODULE Spec2Model ----------------------------
(***************************************************************************)
(* Model of nsh's connection multiplexer (src/src/server.rs, Server<D>),   *)
(* the reactor::Handler it implements, and the driving reactor that feeds  *)
(* it events and pulls its actions.                                        *)
(*                                                                         *)
(* Server state: outbox, action_queue (and the delegate, whose calls are   *)
(* recorded in `calls`).  Reactor state: the registered listener and       *)
(* transports, the action it has pulled and is applying (`current`), and   *)
(* what it has written to each connection.                                 *)
(*                                                                         *)
(* The command grammar (src/src/command.rs) and the connect mode of run()  *)
(* (src/src/main.rs) are modelled by CommandSpec further down.             *)
(***************************************************************************)
EXTENDS Integers, Sequences, FiniteSets, TLC

\* ------------------------------------------------------------ bounds
\* Byte-batches the delegate submits over the whole run.
MaxMsgs == 2
\* Longest action queue the model explores.
MaxQueue == 2
\* Most '@'-separated parts in a command text given on the command line.
MaxParts == 3

\* RawFd values: the listening socket's, and the two the OS hands out to
\* accepted connections (lowest free first, reused after close).
ListenerId == 0
Ids == {1, 2}

\* ------------------------------------------------------------ state
VARIABLES
    outbox,        \* server.rs:26  HashMap<RawFd, VecDeque<Vec<u8>>>
    action_queue,  \* server.rs:27  VecDeque<Action>
    calls,         \* what the last handler called: Delegate operations, Transport::accept
    phase,         \* "running" | "bind_failed" | "panicked" | "absent" (no Server)
    listener,      \* reactor: "pending" | "registered" | "unregistered"
    conn,          \* reactor: id -> a transport is registered under it
    est,           \* reactor: id -> handshake complete (transport writable)
    written,       \* reactor: id -> batches written to the transport registered under id
    draining,      \* reactor: TRUE while it drains the action queue
    current,       \* reactor: the action pulled and being applied, or NoAction
    nextSeq,       \* number of the next batch the delegate submits
    stale,         \* batches still around whose connection is gone
    failures,      \* whether a listener Failure event was handled
    text,          \* main.rs:83  the command text being parsed
    value,         \* a Command value
    result,        \* what Command::from_str returned for text
    pc,            \* main.rs:214 where run() is
    net            \* network operations run() has performed

serverVars == <<outbox, action_queue, calls, phase, listener, conn, est, written,
                draining, current, nextSeq, stale, failures>>

cmdVars == <<text, value, result, pc, net>>

vars == <<serverVars, cmdVars>>

\* Payloads of SessionEvent::Data.
Bytes == {"x", "y"}

\* ------------------------------------------------------------ actions (reactor::Action)
NoAction == [type |-> "None"]

RegisterListener == [type |-> "RegisterListener", id |-> ListenerId]

RegisterTransport(id) == [type |-> "RegisterTransport", id |-> id]

Send(id, msg) == [type |-> "Send", id |-> id, msg |-> msg]

UnregisterTransport(id) == [type |-> "UnregisterTransport", id |-> id]

UnregisterListener(id) == [type |-> "UnregisterListener", id |-> id]

\* A byte-batch, opaque to the Server: the n-th batch the delegate submitted.
Batch(n) == n

\* ------------------------------------------------------------ helpers
\* HashMap::remove
MapRemove(m, k) == [x \in (DOMAIN m) \ {k} |-> m[x]]

\* HashMap::remove(&id).unwrap_or_default()
RemoveOrDefault(m, k) == IF k \in DOMAIN m THEN m[k] ELSE <<>>

\* HashMap::entry(id).or_default().push_back(msg)
EntryPushBack(m, k, v) ==
    [x \in (DOMAIN m) \cup {k} |->
        IF x = k THEN (IF k \in DOMAIN m THEN Append(m[k], v) ELSE <<v>>)
        ELSE m[x]]

\* queue.into_iter().map(|msg| Action::Send(id, msg))
SendAll(id, queue) == [i \in 1..Len(queue) |-> Send(id, queue[i])]

\* ------------------------------------------------------------ delegate
\* What Delegate::new_client(id, ..) / Delegate::input(id, ..) may return:
\* nothing, one or two Send actions to a registered transport, or the
\* disconnect of the transport the call is about.
DelegateReturns(id) ==
    {<<>>, <<UnregisterTransport(id)>>}
    \cup {<<Send(t, Batch(nextSeq))>> :
             t \in {i \in Ids : conn[i] /\ nextSeq <= MaxMsgs}}
    \cup {<<Send(t, Batch(nextSeq)), Send(t, Batch(nextSeq + 1))>> :
             t \in {i \in Ids : conn[i] /\ nextSeq + 1 <= MaxMsgs}}

Submitted(ret) == Cardinality({i \in 1..Len(ret) : ret[i].type = "Send"})

\* ------------------------------------------------------------ command grammar
\* A text is a sequence of characters.
At == "@"
EchoText == <<"e", "c", "h", "o">>
DateText == <<"d", "a", "t", "e">>

\* enum LocalCommand { Echo, Date }
LocalCommands == {"Echo", "Date"}

\* A RemoteHost names a peer: its key and its network address.  The texts of
\* the keys and of the network addresses the address parser accepts.
KeyTexts == {<<"k">>}
AddrTexts == {<<"a">>, <<"b">>}
RemoteHosts == [id : KeyTexts, addr : AddrTexts]
NoHost == [id |-> <<>>, addr |-> <<>>]

\* enum Command { Execute { command }, Forward { hop, command } }
Execute(command) == [kind |-> "Execute", hop |-> NoHost, command |-> command]
Forward(hop, command) == [kind |-> "Forward", hop |-> hop, command |-> command]
Commands ==
    {Execute(c) : c \in LocalCommands}
    \cup {Forward(h, c) : h \in RemoteHosts, c \in LocalCommands}
NoCommand == [kind |-> "None", hop |-> NoHost, command |-> "None"]

\* Command::DATE
DATE == Execute("Date")

\* Result<_, InvalidCommand>
Ok(v) == [ok |-> TRUE, value |-> v, err |-> "None", token |-> <<>>]
Unrecognized(s) == [ok |-> FALSE, value |-> NoCommand, err |-> "Unrecognized", token |-> s]
RemoteAddrError(s) == [ok |-> FALSE, value |-> NoCommand, err |-> "RemoteAddr", token |-> s]
NoResult == [ok |-> FALSE, value |-> NoCommand, err |-> "None", token |-> <<>>]

\* str::split_once("@"): the text before and the text after the first '@'.
HasAt(s) == \E i \in 1..Len(s) : s[i] = At
FirstAt(s) == CHOOSE i \in 1..Len(s) : s[i] = At /\ \A j \in 1..(i - 1) : s[j] # At
Before(s) == SubSeq(s, 1, FirstAt(s) - 1)
After(s) == SubSeq(s, FirstAt(s) + 1, Len(s))

\* A variant of the LocalCommand display that keeps the variant's capital.
DisplayLocalVerbatim(c) ==
    IF c = "Echo" THEN <<"E", "c", "h", "o">> ELSE <<"D", "a", "t", "e">>

\* Display for LocalCommand: #[display(lowercase)]
DisplayLocal(c) == IF c = "Echo" THEN EchoText ELSE DateText

\* impl FromStr for LocalCommand
FromStrLocal(s) ==
    IF s = EchoText THEN Ok("Echo")
    ELSE IF s = DateText THEN Ok("Date")
    ELSE Unrecognized(s)

\* Display of a RemoteHost: <key>@<address>.
DisplayHost(h) == h.id \o <<At>> \o h.addr

\* FromStr of a RemoteHost (hop.parse()): the key before the first '@', the
\* network address after it.
ParseHost(s) ==
    IF HasAt(s) /\ Before(s) \in KeyTexts /\ After(s) \in AddrTexts
    THEN Ok([id |-> Before(s), addr |-> After(s)])
    ELSE RemoteAddrError(s)

\* A variant of the Command display that puts the hop first.
DisplayCommandHopFirst(c) ==
    IF c.kind = "Execute" THEN DisplayLocal(c.command)
    ELSE DisplayHost(c.hop) \o <<At>> \o DisplayLocal(c.command)

\* Display for Command: "{command}" and "{command}@{hop}".
DisplayCommand(c) ==
    IF c.kind = "Execute" THEN DisplayLocal(c.command)
    ELSE DisplayLocal(c.command) \o <<At>> \o DisplayHost(c.hop)

\* A variant of from_str that splits at the last '@'.
FromStrCommandLastAt(s) ==
    LET i == CHOOSE k \in 0..Len(s) :
                 /\ k > 0 => s[k] = At
                 /\ \A j \in (k + 1)..Len(s) : s[j] # At
        command == SubSeq(s, 1, i - 1)
        hop == SubSeq(s, i + 1, Len(s))
    IN  IF i = 0
        THEN (IF FromStrLocal(s).ok THEN Ok(Execute(FromStrLocal(s).value))
              ELSE FromStrLocal(s))
        ELSE IF ~ParseHost(hop).ok THEN ParseHost(hop)
        ELSE IF ~FromStrLocal(command).ok THEN FromStrLocal(command)
        ELSE Ok(Forward(ParseHost(hop).value, FromStrLocal(command).value))

\* impl FromStr for Command: split_once("@"); with an '@', hop.parse()? is
\* evaluated first, then LocalCommand::from_str(command)?.
FromStrCommand(s) ==
    IF ~HasAt(s)
    THEN (IF FromStrLocal(s).ok THEN Ok(Execute(FromStrLocal(s).value))
          ELSE FromStrLocal(s))
    ELSE LET command == Before(s)
             hop == After(s)
         IN  IF ~ParseHost(hop).ok THEN ParseHost(hop)
             ELSE IF ~FromStrLocal(command).ok THEN FromStrLocal(command)
             ELSE Ok(Forward(ParseHost(hop).value, FromStrLocal(command).value))

\* The command texts tried: up to MaxParts words joined by '@'.
Words == {EchoText, DateText, <<"E", "c", "h", "o">>, <<>>, <<"k">>, <<"a">>, <<"b">>}
RECURSIVE JoinAt(_)
JoinAt(ws) ==
    IF Len(ws) = 1 THEN ws[1] ELSE ws[1] \o <<At>> \o JoinAt(Tail(ws))
Texts == UNION {{JoinAt(ws) : ws \in [1..n -> Words]} : n \in 1..MaxParts}

\* ------------------------------------------------------------ construction
\* A variant of with that leaves the listener's registration to the caller.
ServerWithEmptyQueue(bound) ==
    /\ phase = (IF bound THEN "running" ELSE "bind_failed")
    /\ action_queue = <<>>
    /\ outbox = <<>>
    /\ calls = <<>>

\* Server::with: bind, then queue RegisterListener; a failed bind gives no Server.
ServerWith(bound) ==
    /\ phase = (IF bound THEN "running" ELSE "bind_failed")
    /\ action_queue = (IF bound THEN <<RegisterListener>> ELSE <<>>)
    /\ outbox = <<>>
    /\ calls = <<>>

Init ==
    /\ \E bound \in BOOLEAN : ServerWith(bound)
    /\ listener = "pending"
    /\ conn = [i \in Ids |-> FALSE]
    /\ est = [i \in Ids |-> FALSE]
    /\ written = [i \in Ids |-> <<>>]
    /\ draining = FALSE
    /\ current = NoAction
    /\ nextSeq = 1
    /\ stale = {}
    /\ failures = FALSE
    /\ text = <<>> /\ value = DATE /\ result = NoResult /\ net = <<>>
    /\ pc = "listen"


\* ------------------------------------------------------------ Server handlers
\* Each handler is the Server's part of a step: what it does to outbox,
\* action_queue, the delegate and the process.

\* handle_listener_event, ListenerEvent::Accepted.  `addrs` is whether the
\* connection's peer and local address are available (else `expect` panics),
\* `wrapped` whether Transport::accept succeeds.
HandleAccepted(id, addrs, wrapped) ==
    /\ phase' = (IF addrs THEN phase ELSE "panicked")
    /\ calls' = (IF addrs
                 THEN <<[op |-> "accept"], [op |-> "Transport::accept", ok |-> wrapped]>>
                 ELSE <<>>)
    /\ action_queue' = (IF addrs /\ wrapped
                        THEN Append(action_queue, RegisterTransport(id))
                        ELSE action_queue)
    /\ UNCHANGED outbox

\* A variant of Failure that gives the listener up.
FailureUnregisters(id) ==
    /\ action_queue' = Append(action_queue, UnregisterListener(id))
    /\ calls' = <<>>
    /\ UNCHANGED <<outbox, phase>>

\* handle_listener_event, ListenerEvent::Failure: log only.
HandleFailure(id) ==
    /\ calls' = <<>>
    /\ UNCHANGED <<outbox, action_queue, phase>>

\* A variant of Established that queues the buffered batches ahead of
\* new_client's actions.
EstablishedDrainFirst(id, ret) ==
    /\ outbox' = MapRemove(outbox, id)
    /\ calls' = <<[op |-> "new_client", id |-> id, ret |-> ret]>>
    /\ action_queue' = action_queue \o SendAll(id, RemoveOrDefault(outbox, id)) \o ret
    /\ UNCHANGED phase

\* handle_transport_event, SessionEvent::Established.  `ret` is what
\* delegate.new_client(id, key) returns.
HandleEstablished(id, ret) ==
    /\ outbox' = MapRemove(outbox, id)
    /\ calls' = <<[op |-> "new_client", id |-> id, ret |-> ret]>>
    /\ action_queue' = action_queue \o ret \o SendAll(id, RemoveOrDefault(outbox, id))
    /\ UNCHANGED phase

\* A variant of Data that puts the returned actions ahead of the queued ones.
HandleDataFront(id, data, ret) ==
    /\ calls' = <<[op |-> "input", id |-> id, data |-> data, ret |-> ret]>>
    /\ action_queue' = ret \o action_queue
    /\ UNCHANGED <<outbox, phase>>

\* handle_transport_event, SessionEvent::Data.  `ret` is what
\* delegate.input(id, data) returns.
HandleData(id, data, ret) ==
    /\ calls' = <<[op |-> "input", id |-> id, data |-> data, ret |-> ret]>>
    /\ action_queue' = action_queue \o ret
    /\ UNCHANGED <<outbox, phase>>

\* A variant of Terminated that also tells the delegate.
TerminatedNotifies(id) ==
    /\ action_queue' = Append(action_queue, UnregisterTransport(id))
    /\ calls' = <<[op |-> "terminated", id |-> id]>>
    /\ UNCHANGED <<outbox, phase>>

\* handle_transport_event, SessionEvent::Terminated.
HandleTerminated(id) ==
    /\ action_queue' = Append(action_queue, UnregisterTransport(id))
    /\ calls' = <<>>
    /\ UNCHANGED <<outbox, phase>>

\* A variant of TransportDisconnect that asks for the transport's teardown.
DisconnectUnregisters(id) ==
    /\ action_queue' = Append(action_queue, UnregisterTransport(id))
    /\ calls' = <<>>
    /\ UNCHANGED <<outbox, phase>>

\* handle_error, Error::TransportDisconnect: log and return.
ErrTransportDisconnect(id) ==
    /\ calls' = <<>>
    /\ UNCHANGED <<outbox, action_queue, phase>>

\* A variant of WriteLogicError that keeps only the newest batch.
WriteLogicErrorReplaces(id, msg) ==
    /\ outbox' = [k \in DOMAIN outbox \cup {id} |->
                      IF k = id THEN <<msg>> ELSE outbox[k]]
    /\ calls' = <<>>
    /\ UNCHANGED <<action_queue, phase>>

\* handle_error, Error::WriteLogicError(id, msg).
ErrWriteLogicError(id, msg) ==
    /\ outbox' = EntryPushBack(outbox, id, msg)
    /\ calls' = <<>>
    /\ UNCHANGED <<action_queue, phase>>

\* handle_error, Error::ListenerUnknown | TransportUnknown | Poll: log only.
ErrLogOnly ==
    /\ calls' = <<>>
    /\ UNCHANGED <<outbox, action_queue, phase>>

\* A variant of the listener errors that is classified as a transport teardown.
ErrListenerAsTransport(id) ==
    /\ action_queue' = Append(action_queue, UnregisterTransport(id))
    /\ calls' = <<>>
    /\ UNCHANGED <<outbox, phase>>

\* handle_error, Error::ListenerDisconnect | ListenerPollError.
ErrListener(id) ==
    /\ action_queue' = Append(action_queue, UnregisterListener(id))
    /\ calls' = <<>>
    /\ UNCHANGED <<outbox, phase>>

\* handle_error, Error::WriteFailure | TransportPollError.
ErrTransport(id) ==
    /\ action_queue' = Append(action_queue, UnregisterTransport(id))
    /\ calls' = <<>>
    /\ UNCHANGED <<outbox, phase>>

\* handover_listener: panic.
HandoverListener ==
    /\ phase' = "panicked"
    /\ calls' = <<>>
    /\ UNCHANGED <<outbox, action_queue>>

\* handover_transport: log only.
HandoverTransport ==
    /\ calls' = <<>>
    /\ UNCHANGED <<outbox, action_queue, phase>>

\* tick, handle_timer, handle_command: log only.
HandleNothing ==
    /\ calls' = <<>>
    /\ UNCHANGED <<outbox, action_queue, phase>>

\* A variant of next that pops the back of the queue.
IteratorNextBack ==
    /\ current' = (IF action_queue = <<>> THEN NoAction
                   ELSE action_queue[Len(action_queue)])
    /\ action_queue' = (IF action_queue = <<>> THEN <<>>
                        ELSE SubSeq(action_queue, 1, Len(action_queue) - 1))
    /\ calls' = <<>>
    /\ UNCHANGED <<outbox, phase>>

\* Iterator::next: pop_front; None when the queue is empty.
IteratorNext ==
    /\ current' = (IF action_queue = <<>> THEN NoAction ELSE Head(action_queue))
    /\ action_queue' = (IF action_queue = <<>> THEN <<>> ELSE Tail(action_queue))
    /\ calls' = <<>>
    /\ UNCHANGED <<outbox, phase>>

\* ------------------------------------------------------------ the reactor
\* The reactor runs the handlers one at a time on one thread.  In a dispatch
\* pass it delivers the events of the poll; between passes it drains the
\* Server: it pulls actions with Iterator::next, applying each one, until
\* next returns None.

Running == phase = "running"
Idle == Running /\ current = NoAction /\ ~draining
Room(n) == Len(action_queue) + n <= MaxQueue

\* An fd is free once no transport holds it: none registered under it and
\* none waiting in the queue to be registered.
FreeFd(id) ==
    /\ ~conn[id]
    /\ \A i \in 1..Len(action_queue) :
          ~(action_queue[i].type = "RegisterTransport" /\ action_queue[i].id = id)

\* The batches on their way to the connection registered under id: buffered in
\* its outbox or queued as Send actions.
PendingFor(id) ==
    {RemoveOrDefault(outbox, id)[i] : i \in 1..Len(RemoveOrDefault(outbox, id))}
    \cup {action_queue[i].msg :
             i \in {j \in 1..Len(action_queue) :
                       action_queue[j].type = "Send" /\ action_queue[j].id = id}}

\* ---- a dispatch pass: events and errors of the poll
ListenerAccepted ==
    /\ Idle /\ listener = "registered" /\ Room(1)
    /\ \E id \in Ids, addrs \in BOOLEAN, wrapped \in BOOLEAN :
          /\ FreeFd(id) /\ \A j \in Ids : FreeFd(j) => id <= j
          /\ HandleAccepted(id, addrs, wrapped)
    /\ UNCHANGED <<listener, conn, est, written, draining, current, nextSeq, stale, failures>>
    /\ UNCHANGED cmdVars

ListenerFailure ==
    /\ Idle /\ listener = "registered"
    /\ HandleFailure(ListenerId)
    /\ failures' = TRUE
    /\ UNCHANGED <<listener, conn, est, written, draining, current, nextSeq, stale>>
    /\ UNCHANGED cmdVars

\* The handshake completes: the transport turns writable and reports Established.
TransportEstablishedOn(id) ==
    /\ Idle
    /\ conn[id] /\ ~est[id]
    /\ \E ret \in DelegateReturns(id) :
          /\ Room(Len(ret) + Len(RemoveOrDefault(outbox, id)))
          /\ HandleEstablished(id, ret)
          /\ nextSeq' = nextSeq + Submitted(ret)
    /\ est' = [est EXCEPT ![id] = TRUE]
    /\ UNCHANGED <<listener, conn, written, draining, current, stale, failures>>
    /\ UNCHANGED cmdVars

TransportEstablished == \E id \in Ids : TransportEstablishedOn(id)

TransportDataOn(id) ==
    /\ Idle
    /\ conn[id] /\ est[id]
    /\ \E data \in Bytes, ret \in DelegateReturns(id) :
          /\ Room(Len(ret))
          /\ HandleData(id, data, ret)
          /\ nextSeq' = nextSeq + Submitted(ret)
    /\ UNCHANGED <<listener, conn, est, written, draining, current, stale, failures>>
    /\ UNCHANGED cmdVars

TransportData == \E id \in Ids : TransportDataOn(id)

TransportTerminatedOn(id) ==
    /\ Idle /\ Room(1)
    /\ conn[id]
    /\ HandleTerminated(id)
    /\ UNCHANGED <<listener, conn, est, written, draining, current, nextSeq, stale, failures>>
    /\ UNCHANGED cmdVars

TransportTerminated == \E id \in Ids : TransportTerminatedOn(id)

\* The peer hung up: the reactor drops the transport and reports
\* Error::TransportDisconnect, handing the transport over in the error.
PeerDisconnectOn(id) ==
    /\ Idle
    /\ conn[id]
    /\ ErrTransportDisconnect(id)
    /\ conn' = [conn EXCEPT ![id] = FALSE]
    /\ est' = [est EXCEPT ![id] = FALSE]
    /\ stale' = stale \cup PendingFor(id)
    /\ written' = [written EXCEPT ![id] = <<>>]
    /\ UNCHANGED <<listener, draining, current, nextSeq, failures>>
    /\ UNCHANGED cmdVars

PeerDisconnect == \E id \in Ids : PeerDisconnectOn(id)

TransportPollErrorOn(id) ==
    /\ Idle /\ Room(1)
    /\ conn[id]
    /\ ErrTransport(id)
    /\ UNCHANGED <<listener, conn, est, written, draining, current, nextSeq, stale, failures>>
    /\ UNCHANGED cmdVars

TransportPollError == \E id \in Ids : TransportPollErrorOn(id)

\* The listening socket hung up: the reactor drops the listener and reports
\* Error::ListenerDisconnect, handing the listener over in the error.
ListenerDisconnect ==
    /\ Idle /\ listener = "registered" /\ Room(1)
    /\ ErrListener(ListenerId)
    /\ listener' = "unregistered"
    /\ UNCHANGED <<conn, est, written, draining, current, nextSeq, stale, failures>>
    /\ UNCHANGED cmdVars

ListenerPollError ==
    /\ Idle /\ listener = "registered" /\ Room(1)
    /\ ErrListener(ListenerId)
    /\ UNCHANGED <<listener, conn, est, written, draining, current, nextSeq, stale, failures>>
    /\ UNCHANGED cmdVars

PollError ==
    /\ Idle
    /\ ErrLogOnly
    /\ UNCHANGED <<listener, conn, est, written, draining, current, nextSeq, stale, failures>>
    /\ UNCHANGED cmdVars

\* tick, handle_timer, handle_command.
Tick ==
    /\ Idle
    /\ HandleNothing
    /\ UNCHANGED <<listener, conn, est, written, draining, current, nextSeq, stale, failures>>
    /\ UNCHANGED cmdVars

\* ---- the drain: pull an action, apply it
\* The reactor pulls the next action; None ends the drain.
Pull ==
    /\ Running /\ current = NoAction
    /\ IteratorNext
    /\ draining' = (action_queue # <<>>)
    /\ UNCHANGED <<listener, conn, est, written, nextSeq, stale, failures>>
    /\ UNCHANGED cmdVars

Applying(type) == Running /\ current.type = type

ApplyRegisterListener ==
    /\ Applying("RegisterListener")
    /\ listener' = "registered"
    /\ current' = NoAction
    /\ calls' = <<>>
    /\ UNCHANGED <<outbox, action_queue, phase>>
    /\ UNCHANGED <<conn, est, written, draining, nextSeq, stale, failures>>
    /\ UNCHANGED cmdVars

ApplyRegisterTransport ==
    /\ Applying("RegisterTransport")
    /\ conn' = [conn EXCEPT ![current.id] = TRUE]
    /\ est' = [est EXCEPT ![current.id] = FALSE]
    /\ current' = NoAction
    /\ calls' = <<>>
    /\ UNCHANGED <<outbox, action_queue, phase>>
    /\ UNCHANGED <<listener, written, draining, nextSeq, stale, failures>>
    /\ UNCHANGED cmdVars

\* Send to an id the reactor does not know: Error::TransportUnknown.
SendUnknown ==
    /\ Applying("Send") /\ ~conn[current.id]
    /\ ErrLogOnly
    /\ current' = NoAction
    /\ stale' = stale \ {current.msg}
    /\ UNCHANGED <<listener, conn, est, written, draining, nextSeq, failures>>
    /\ UNCHANGED cmdVars

\* Send to a transport still in its handshake: Error::WriteLogicError.
SendNotReady ==
    /\ Applying("Send") /\ conn[current.id] /\ ~est[current.id]
    /\ ErrWriteLogicError(current.id, current.msg)
    /\ current' = NoAction
    /\ UNCHANGED <<listener, conn, est, written, draining, nextSeq, stale, failures>>
    /\ UNCHANGED cmdVars

\* Send to a writable transport: the batch goes out.
SendWritten ==
    /\ Applying("Send") /\ conn[current.id] /\ est[current.id]
    /\ written' = [written EXCEPT ![current.id] = Append(@, current.msg)]
    /\ current' = NoAction
    /\ calls' = <<>>
    /\ UNCHANGED <<outbox, action_queue, phase>>
    /\ UNCHANGED <<listener, conn, est, draining, nextSeq, stale, failures>>
    /\ UNCHANGED cmdVars

\* Send to a writable transport fails with an I/O error: Error::WriteFailure.
SendFailure ==
    /\ Applying("Send") /\ conn[current.id] /\ est[current.id]
    /\ ErrTransport(current.id)
    /\ current' = NoAction
    /\ UNCHANGED <<listener, conn, est, written, draining, nextSeq, stale, failures>>
    /\ UNCHANGED cmdVars

\* UnregisterTransport of a registered transport: it is removed and handed
\* back to the Server (handover_transport), which drops it.
ApplyUnregisterTransport ==
    /\ Applying("UnregisterTransport") /\ conn[current.id]
    /\ HandoverTransport
    /\ conn' = [conn EXCEPT ![current.id] = FALSE]
    /\ est' = [est EXCEPT ![current.id] = FALSE]
    /\ stale' = stale \cup PendingFor(current.id)
    /\ written' = [written EXCEPT ![current.id] = <<>>]
    /\ current' = NoAction
    /\ UNCHANGED <<listener, draining, nextSeq, failures>>
    /\ UNCHANGED cmdVars

\* UnregisterTransport of an id the reactor does not know: Error::TransportUnknown.
UnregisterUnknownTransport ==
    /\ Applying("UnregisterTransport") /\ ~conn[current.id]
    /\ ErrLogOnly
    /\ current' = NoAction
    /\ UNCHANGED <<listener, conn, est, written, draining, nextSeq, stale, failures>>
    /\ UNCHANGED cmdVars

\* UnregisterListener of the registered listener: it is removed and handed
\* back to the Server (handover_listener), which panics.
ApplyUnregisterListener ==
    /\ Applying("UnregisterListener") /\ listener = "registered"
    /\ HandoverListener
    /\ listener' = "unregistered"
    /\ current' = NoAction
    /\ UNCHANGED <<conn, est, written, draining, nextSeq, stale, failures>>
    /\ UNCHANGED cmdVars

\* UnregisterListener of a listener the reactor dropped: Error::ListenerUnknown.
UnregisterUnknownListener ==
    /\ Applying("UnregisterListener") /\ listener # "registered"
    /\ ErrLogOnly
    /\ current' = NoAction
    /\ UNCHANGED <<listener, conn, est, written, draining, nextSeq, stale, failures>>
    /\ UNCHANGED cmdVars

Next ==
    \/ ListenerAccepted
    \/ ListenerFailure
    \/ TransportEstablished
    \/ TransportData
    \/ TransportTerminated
    \/ PeerDisconnect
    \/ TransportPollError
    \/ ListenerDisconnect
    \/ ListenerPollError
    \/ PollError
    \/ Tick
    \/ Pull
    \/ ApplyRegisterListener
    \/ ApplyRegisterTransport
    \/ SendUnknown
    \/ SendNotReady
    \/ SendWritten
    \/ SendFailure
    \/ ApplyUnregisterTransport
    \/ UnregisterUnknownTransport
    \/ ApplyUnregisterListener
    \/ UnregisterUnknownListener

Spec == Init /\ [][Next]_vars

\* Fair delivery: the reactor keeps draining the action queue and applying what
\* it pulled, and a registered transport whose handshake can complete does
\* complete it.  Nothing obliges a peer to connect, to send or to hang up.
Drain ==
    \/ Pull
    \/ ApplyRegisterListener \/ ApplyRegisterTransport
    \/ SendUnknown \/ SendNotReady \/ SendWritten
    \/ ApplyUnregisterTransport \/ UnregisterUnknownTransport
    \/ ApplyUnregisterListener \/ UnregisterUnknownListener

FairSpec ==
    /\ Spec
    /\ WF_vars(Drain)
    /\ \A id \in Ids : WF_vars(TransportEstablishedOn(id))

\* ------------------------------------------------------------ run(), connect mode
\* main.rs run() with a remote host and a command text on the command line.
\* No Server exists in this mode.
NoServer ==
    /\ phase = "absent" /\ outbox = <<>> /\ action_queue = <<>> /\ calls = <<>>
    /\ listener = "pending"
    /\ conn = [i \in Ids |-> FALSE] /\ est = [i \in Ids |-> FALSE]
    /\ written = [i \in Ids |-> <<>>]
    /\ draining = FALSE /\ current = NoAction
    /\ nextSeq = 1 /\ stale = {} /\ failures = FALSE

CommandInit ==
    /\ NoServer
    /\ text \in Texts
    /\ value \in Commands
    /\ result = NoResult
    /\ pc = "start"
    /\ net = <<>>

\* to_string of a Command value: the text is now what Display gives.
Display ==
    /\ pc = "start"
    /\ text' = DisplayCommand(value)
    /\ pc' = "shown"
    /\ UNCHANGED <<value, result, net, serverVars>>

\* A variant of the argument parsing that goes on when the text does not parse.
ArgsParseLenient ==
    /\ pc \in {"start", "shown"}
    /\ result' = FromStrCommand(text)
    /\ pc' = "parsed"
    /\ UNCHANGED <<text, value, net, serverVars>>

\* Args::parse(): clap parses the command argument with Command::from_str and
\* exits with a usage error when that fails.
ArgsParse ==
    /\ pc \in {"start", "shown"}
    /\ result' = FromStrCommand(text)
    /\ pc' = (IF result'.ok THEN "parsed" ELSE "usage_error")
    /\ UNCHANGED <<text, value, net, serverVars>>

\* Config::try_from(args)?: the identity file is read; an I/O or key error
\* ends run().
ConfigTryFrom ==
    /\ pc = "parsed"
    /\ pc' \in {"configured", "failed"}
    /\ UNCHANGED <<text, value, result, net, serverVars>>

\* Client::connect(host, ..)?: the connection is opened and the handshake run.
ClientConnect ==
    /\ pc = "configured"
    /\ net' = Append(net, "connect")
    /\ pc' \in {"connected", "failed"}
    /\ UNCHANGED <<text, value, result, serverVars>>

\* client.exec(command)?, the output loop and client.disconnect()?.
ClientExec ==
    /\ pc = "connected"
    /\ net' = Append(net, "exec")
    /\ pc' \in {"done", "failed"}
    /\ UNCHANGED <<text, value, result, serverVars>>

CommandNext ==
    \/ Display
    \/ ArgsParse
    \/ ConfigTryFrom
    \/ ClientConnect
    \/ ClientExec

CommandSpec == CommandInit /\ [][CommandNext]_vars

\* ------------------------------------------------------------ typing
TypeOK ==
    /\ DOMAIN outbox \subseteq Ids
    /\ \A id \in DOMAIN outbox : Len(outbox[id]) >= 1
    /\ Len(action_queue) <= MaxQueue
    /\ phase \in {"running", "bind_failed", "panicked", "absent"}
    /\ listener \in {"pending", "registered", "unregistered"}
    /\ stale \subseteq 1..MaxMsgs

\* ------------------------------------------------------------ properties
\* The calls the last handler made were exactly the delegate operation `op`.
Called(op) == Len(calls) = 1 /\ calls[1].op = op
CalledNext(op) == Len(calls') = 1 /\ calls'[1].op = op

\* The handler accepted a connection and Transport::accept succeeded.
AcceptedOk(c) == Len(c) = 2 /\ c[1].op = "accept" /\ c[2].ok

\* The other connections' outboxes are as they were.
OthersKept(id) ==
    /\ (DOMAIN outbox') \ {id} = (DOMAIN outbox) \ {id}
    /\ \A o \in (DOMAIN outbox) \ {id} : outbox'[o] = outbox[o]

\* C1: handling Established(id) appends to the action queue first the actions
\* new_client returned, in the order returned, then Send(id, m1), ...,
\* Send(id, mN) for the batches m1..mN buffered for id, in the order they were
\* buffered, each once; afterwards the outbox holds no entry for id.
C1_EstablishedDrain ==
    [][CalledNext("new_client") =>
          LET id == calls'[1].id
              ret == calls'[1].ret
              buffered == IF id \in DOMAIN outbox THEN outbox[id] ELSE <<>>
              n == Len(action_queue) + Len(ret)
          IN  /\ Len(action_queue') = n + Len(buffered)
              /\ \A i \in 1..Len(action_queue) : action_queue'[i] = action_queue[i]
              /\ \A i \in 1..Len(ret) : action_queue'[Len(action_queue) + i] = ret[i]
              /\ \A i \in 1..Len(buffered) :
                    action_queue'[n + i] = [type |-> "Send", id |-> id, msg |-> buffered[i]]
              /\ id \notin DOMAIN outbox'
              /\ OthersKept(id)]_vars

\* C1 witness: Established has just been handled for a connection with a
\* buffered batch; new_client returned an action, which is queued ahead of it.
C1_Witness ==
    /\ Called("new_client")
    /\ Len(calls[1].ret) = 1
    /\ Len(action_queue) = 2
    /\ action_queue[1] = calls[1].ret[1]
    /\ action_queue[1].type # "Send"
    /\ action_queue[2].type = "Send" /\ action_queue[2].id = calls[1].id
    /\ calls[1].id \notin DOMAIN outbox

\* C2: handling Terminated for id queues UnregisterTransport(id) and discards
\* the outbox of id: right after the handler the outbox has no entry for id.
C2_TerminatedDiscards ==
    [][\A id \in Ids :
          TransportTerminatedOn(id) =>
              /\ action_queue' = Append(action_queue, UnregisterTransport(id))
              /\ id \notin DOMAIN outbox']_vars

\* No Send in the queue carries, to the connection registered under its id, a
\* batch that was submitted for an earlier connection.
NoStaleSend ==
    \A i \in 1..Len(action_queue) :
        (action_queue[i].type = "Send" /\ conn[action_queue[i].id])
            => action_queue[i].msg \notin stale

\* The batches in id's outbox that belong to a connection that is gone.
StaleIn(ob, id) ==
    IF id \in DOMAIN ob THEN SelectSeq(ob[id], LAMBDA m : m \in stale) ELSE <<>>

\* C3: outbox isolation.  A batch buffered for connection A is never emitted as
\* a Send to another connection B, also when B is registered under A's id after
\* A was unregistered; and events for B leave A's buffered batches as they are.
C3_OutboxIsolation ==
    /\ []NoStaleSend
    /\ [][/\ \A id \in Ids : StaleIn(outbox', id) = StaleIn(outbox, id)
          /\ Cardinality({id \in Ids :
                RemoveOrDefault(outbox', id) # RemoveOrDefault(outbox, id)}) <= 1]_vars

\* C4: every key of the outbox map is a currently registered connection; once
\* a connection is unregistered no outbox entry for it remains.
C4_OutboxLifetime ==
    \A id \in DOMAIN outbox : conn[id]

\* C5: the batches written to a connection appear in the order in which they
\* were submitted as Send actions (their submission numbers increase).
C5_PerConnectionOrder ==
    \A id \in Ids : \A i, j \in 1..Len(written[id]) :
        i < j => written[id][i] < written[id][j]

\* What a teardown-triggering event for id does: one UnregisterTransport(id)
\* more in the queue, no delegate call, no outbox gaining or changing a batch,
\* the registrations as they were.
TornDown(id) ==
    /\ action_queue' = Append(action_queue, UnregisterTransport(id))
    /\ calls' = <<>>
    /\ OthersKept(id)
    /\ id \in DOMAIN outbox' => (id \in DOMAIN outbox /\ outbox'[id] = outbox[id])
    /\ UNCHANGED <<phase, listener, conn, est>>

\* A queued UnregisterTransport(id) never follows a queued RegisterTransport(id):
\* a repeated teardown cannot hit the connection that reuses the id.
NoUnregisterOfNewcomer ==
    \A i, j \in 1..Len(action_queue) :
        (i < j /\ action_queue[i].type = "RegisterTransport")
            => ~(action_queue[j].type = "UnregisterTransport"
                 /\ action_queue[j].id = action_queue[i].id)

\* C6: idempotent teardown.  Each teardown-triggering event for id (Terminated,
\* write failure, transport poll error), the first like the second, only queues
\* UnregisterTransport(id): the outbox and the rest of the state stay as they
\* are and no Delegate operation is invoked; applying the repeated
\* UnregisterTransport changes nothing and never hits a newer connection.
C6_IdempotentTeardown ==
    /\ []NoUnregisterOfNewcomer
    /\ [][/\ \A id \in Ids :
                (TransportTerminatedOn(id) \/ TransportPollErrorOn(id)) => TornDown(id)
          /\ SendFailure => TornDown(current.id)
          /\ UnregisterUnknownTransport =>
                (calls' = <<>> /\ UNCHANGED <<outbox, action_queue, phase, listener, conn, est>>)
          /\ ApplyUnregisterTransport =>
                (calls' = <<>> /\ UNCHANGED <<outbox, action_queue, phase, listener>>)]_vars

\* C6 witness: two teardown events for the same connection have been handled.
C6_Witness ==
    \E id \in Ids :
        /\ action_queue = <<UnregisterTransport(id), UnregisterTransport(id)>>
        /\ conn[id] /\ calls = <<>> /\ phase = "running"

\* C7: listener resilience.  Handling Failure queues nothing and leaves the
\* action queue, the outbox and the listener's registration as they are; an
\* Accepted event whose wrap succeeds queues a RegisterTransport, whatever
\* Failure events came before.
C7_ListenerResilience ==
    [][/\ ListenerFailure =>
             (calls' = <<>> /\ UNCHANGED <<action_queue, outbox, phase, listener>>)
       /\ AcceptedOk(calls') =>
             \E id \in Ids : action_queue' = Append(action_queue, RegisterTransport(id))]_vars

\* C7 witness: after a Failure event, an Accepted event has queued a RegisterTransport.
C7_Witness ==
    /\ failures
    /\ AcceptedOk(calls)
    /\ listener = "registered"
    /\ action_queue # <<>>
    /\ action_queue[Len(action_queue)].type = "RegisterTransport"

\* C8: listener availability.  Once RegisterListener has been applied the
\* listener is registered in every state in which the process has not faulted;
\* a listener handed back (handover_listener) faults the process.
C8_ListenerAvailable ==
    /\ [](phase = "running" => listener \in {"pending", "registered"})
    /\ [][ApplyUnregisterListener => phase' = "panicked"]_vars

\* C9: handling WriteLogicError(id, msg) appends msg to the back of id's outbox,
\* creating it if absent, keeps every batch buffered before, queues no action
\* and leaves the other connections' outboxes as they are.
C9_WriteNotReadyBuffers ==
    [][(Running /\ current.type = "Send" /\ conn[current.id] /\ ~est[current.id]) =>
          LET id == current.id
              before == IF id \in DOMAIN outbox THEN outbox[id] ELSE <<>>
          IN  /\ id \in DOMAIN outbox'
              /\ outbox'[id] = Append(before, current.msg)
              /\ OthersKept(id)
              /\ action_queue' = action_queue
              /\ calls' = <<>>
              /\ phase' = phase]_vars

\* C9 witness: a second batch has been buffered behind the first.
C9_Witness ==
    \E id \in DOMAIN outbox :
        /\ Len(outbox[id]) = 2
        /\ outbox[id][1] # outbox[id][2]
        /\ current = NoAction /\ conn[id] /\ ~est[id]

\* What an error classified as a teardown does: one action more in the queue,
\* nothing else touched, the process goes on.
OnlyQueued(a) ==
    /\ action_queue' = Append(action_queue, a)
    /\ calls' = <<>>
    /\ phase' = "running"
    /\ UNCHANGED <<outbox, conn, est>>

OnlyLogged ==
    /\ calls' = <<>>
    /\ UNCHANGED <<action_queue, outbox, phase>>

\* C11: log-only errors are state-preserving.  Handling an unknown-listener or
\* unknown-transport error, a poll error, a peer disconnect
\* (TransportDisconnect) or a transport handover leaves the action queue and
\* the whole outbox map unchanged and invokes no Delegate operation.
C11_LogOnlyErrors ==
    [][/\ (PollError \/ SendUnknown \/ UnregisterUnknownTransport
              \/ UnregisterUnknownListener) => OnlyLogged
       /\ PeerDisconnect => OnlyLogged
       /\ ApplyUnregisterTransport => OnlyLogged]_vars

\* C11 witness: a peer has disconnected (or its transport was handed over)
\* while a batch sat in its outbox and an action was queued; both are still there.
C11_Witness ==
    \E id \in DOMAIN outbox :
        /\ ~conn[id] /\ outbox[id] # <<>>
        /\ action_queue # <<>> /\ calls = <<>> /\ phase = "running"

\* q is p with some actions appended.
IsPrefix(p, q) == Len(p) <= Len(q) /\ SubSeq(q, 1, Len(p)) = p

\* C12: pull contract and strict FIFO.  A pull takes the head of the queue and
\* leaves the rest; on an empty queue it yields nothing and changes nothing;
\* every other step leaves the queue as it is or appends at its back, so the
\* actions are yielded in the order they were queued.
C12_PullFifo ==
    [][/\ Pull =>
            /\ action_queue # <<>> =>
                  (current' = Head(action_queue) /\ action_queue' = Tail(action_queue))
            /\ action_queue = <<>> => (current' = NoAction /\ action_queue' = <<>>)
            /\ UNCHANGED <<outbox, phase, listener, conn, est, written>>
       /\ ~Pull => IsPrefix(action_queue, action_queue')
       /\ current' # current => (Pull \/ current' = NoAction)]_vars

\* C12 witness: of two Send actions queued for one connection the pull has
\* yielded the one submitted first; the later one is now the head.
C12_Witness ==
    /\ current.type = "Send"
    /\ Len(action_queue) = 1 /\ action_queue[1].type = "Send"
    /\ action_queue[1].id = current.id
    /\ current.msg < action_queue[1].msg

\* C13: round trip of the command grammar.  For every Command value c, parsing
\* the text Display gives for c succeeds and yields c.
C13_RoundTrip ==
    /\ \A c \in Commands : FromStrCommand(DisplayCommand(c)) = Ok(c)
    /\ (result # NoResult /\ text = DisplayCommand(value)) => result = Ok(value)

\* C13 witness: the text displayed for a Forward command has been parsed back.
C13_Witness ==
    /\ value.kind = "Forward"
    /\ text = DisplayCommand(value)
    /\ pc = "parsed" /\ result.ok /\ result.value = value

\* The text is exactly a LocalCommand name.
IsLocal(s) == s \in {EchoText, DateText}
LocalOf(s) == IF s = EchoText THEN "Echo" ELSE "Date"

\* What parse does with a text that has no '@'.
NoAtGrammar(t, r) ==
    /\ IsLocal(t) => r = Ok(Execute(LocalOf(t)))
    /\ ~IsLocal(t) => r = Unrecognized(t)

\* C14 as stated: without '@' the text must be exactly echo or date, else
\* Unrecognized(text); with '@' it is split at the first '@', the left part must
\* be a LocalCommand, else Unrecognized(left), and the whole remainder goes to
\* the address parser, whose failure is an address error.
C14_Original ==
    result # NoResult =>
        /\ ~HasAt(text) => NoAtGrammar(text, result)
        /\ HasAt(text) =>
              /\ ~IsLocal(Before(text)) => result = Unrecognized(Before(text))
              /\ (IsLocal(Before(text)) /\ ~ParseHost(After(text)).ok) =>
                    (~result.ok /\ result.err = "RemoteAddr" /\ result.token = After(text))
              /\ (IsLocal(Before(text)) /\ ParseHost(After(text)).ok) =>
                    result = Ok(Forward(ParseHost(After(text)).value, LocalOf(Before(text))))

\* C14 amended: as above, but with an '@' the address is parsed first: if the
\* remainder after the first '@' is not an address the result is the address
\* error, whatever the left part is; Unrecognized(left) is the result only when
\* the address is valid and the left part is not a LocalCommand.
C14_ParseGrammar ==
    result # NoResult =>
        /\ ~HasAt(text) => NoAtGrammar(text, result)
        /\ HasAt(text) =>
              /\ ~ParseHost(After(text)).ok =>
                    (~result.ok /\ result.err = "RemoteAddr" /\ result.token = After(text))
              /\ (ParseHost(After(text)).ok /\ ~IsLocal(Before(text))) =>
                    result = Unrecognized(Before(text))
              /\ (ParseHost(After(text)).ok /\ IsLocal(Before(text))) =>
                    result = Ok(Forward(ParseHost(After(text)).value, LocalOf(Before(text))))

\* C14 witness: date@k@a has been parsed: command date, address text k@a.
C14_Witness ==
    /\ text = DateText \o <<At, "k", At, "a">>
    /\ result = Ok(Forward([id |-> <<"k">>, addr |-> <<"a">>], "Date"))
    /\ pc = "parsed"

\* C15 as stated: the textual form is [<host>@]<local-command>: in a forwarded
\* command the host comes before the '@' and the local command after it, in
\* what parse accepts as Forward and in what Display emits.
C15_Original ==
    /\ (result.ok /\ result.value.kind = "Forward") =>
          text = DisplayHost(result.value.hop) \o <<At>> \o DisplayLocal(result.value.command)
    /\ (pc = "shown" /\ value.kind = "Forward") =>
          text = DisplayHost(value.hop) \o <<At>> \o DisplayLocal(value.command)

\* C15 amended: the textual form is <local-command>[@<host>]: in a forwarded
\* command the local command comes before the first '@' and the host after it,
\* in what parse accepts as Forward and in what Display emits.
C15_TextualForm ==
    /\ (result.ok /\ result.value.kind = "Forward") =>
          text = DisplayLocal(result.value.command) \o <<At>> \o DisplayHost(result.value.hop)
    /\ (result.ok /\ result.value.kind = "Execute") =>
          text = DisplayLocal(result.value.command)
    /\ (pc = "shown" /\ value.kind = "Forward") =>
          text = DisplayLocal(value.command) \o <<At>> \o DisplayHost(value.hop)
    /\ (pc = "shown" /\ value.kind = "Execute") => text = DisplayLocal(value.command)

\* C15 witness: a text given on the command line was accepted as a Forward.
C15_Witness ==
    /\ pc = "parsed" /\ result.ok /\ result.value.kind = "Forward"
    /\ value.kind = "Execute"
    /\ Before(text) = EchoText

\* C16: grammar errors precede any network action.  When the command text does
\* not parse, run() ends before any connection is opened or command sent; a
\* connect or exec only happens with a successfully parsed Command.
C16_GrammarFirst ==
    /\ [](net # <<>> => (result.ok /\ result.value \in Commands))
    /\ []((result # NoResult /\ ~result.ok) => (pc = "usage_error" /\ net = <<>>))
    /\ [][pc = "usage_error" => UNCHANGED <<pc, net>>]_vars

\* C16 witness: a text with a malformed hop address was refused, nothing was
\* sent.
C16_Witness ==
    /\ pc = "usage_error" /\ net = <<>>
    /\ result.err = "RemoteAddr" /\ IsLocal(Before(text))

\* Batch m sits in the outbox of id.
InOutbox(id, m) ==
    id \in DOMAIN outbox /\ \E i \in 1..Len(outbox[id]) : outbox[id][i] = m

\* C17: outbox replay.  Under fair delivery every batch placed in the outbox of
\* id eventually leaves it: queued as Send(id, m) at the connection's
\* Established, or discarded by the connection's teardown.
C17_OutboxReplay ==
    \A id \in Ids : \A m \in 1..MaxMsgs :
        InOutbox(id, m) ~> ~InOutbox(id, m)

\* C18: handling Accepted is never fatal.  It calls delegate.accept once and,
\* if the wrap succeeds, appends exactly one RegisterTransport; on any failure
\* (wrap failure, peer or local address unavailable) nothing is queued, the
\* outbox is unchanged and the process keeps running.
C18_AcceptedNotFatal ==
    [][ListenerAccepted =>
          /\ phase' = "running"
          /\ outbox' = outbox
          /\ \/ AcceptedOk(calls')
                /\ \E id \in Ids : action_queue' = Append(action_queue, RegisterTransport(id))
             \/ ~AcceptedOk(calls') /\ action_queue' = action_queue]_vars

C20_Construction ==
    /\ (phase = "running" /\ listener = "pending") =>
          /\ outbox = <<>>
          /\ \A id \in Ids : ~conn[id]
          /\ \/ action_queue = <<RegisterListener>> /\ current = NoAction
             \/ action_queue = <<>> /\ current = RegisterListener
    /\ phase = "bind_failed" =>
          (action_queue = <<>> /\ outbox = <<>> /\ current = NoAction /\ listener = "pending")

\* C20 witness: the first pull has yielded RegisterListener.
C20_Witness ==
    /\ phase = "running" /\ listener = "pending"
    /\ current = RegisterListener /\ action_queue = <<>> /\ outbox = <<>>

=============================================================================
